---- MODULE Spec2Model ----
(***************************************************************************)
(* Model of src/main.py: a Streamlit page that fetches news for a topic    *)
(* (fetch_news), then for each article calls research_news and             *)
(* generate_tweet_analysis and renders one block per article (main).       *)
(*                                                                         *)
(* Texts are sequences of chunks (short strings); the empty text is <<>>.  *)
(* A script run is split at its blocking calls: the search request and the *)
(* two generation calls per article.                                       *)
(***************************************************************************)
EXTENDS Integers, Sequences, FiniteSets, TLC

VARIABLES pc, topic, payload, news_data, news_articles, idx,
          research_context, tweet_insight, events, st_errors

vars == <<pc, topic, payload, news_data, news_articles, idx,
          research_context, tweet_insight, events, st_errors>>

\* ------------------------------------------------------------------ bounds
\* Longest news array the search API answers with (it need not honour num).
MaxNews == 6

\* ------------------------------------------------------- program constants
\* "num": 5 in the request payload.
NumRequested == 5

\* --------------------------------------------------------------- inputs
\* What the user can type in the text input.
Topics == { <<>>, <<"ev">> }

\* Result items of the search response: one without link and with a key the
\* program does not read, one with a link only.
NewsItems ==
    { [title |-> <<"a">>, snippet |-> <<"s">>, date |-> <<"d">>],
      [link |-> <<"l">>] }

NewsArrays == UNION { [1..n -> NewsItems] : n \in 0..MaxNews }

\* Raw completions of the text model, before .strip().
RawResponses == { <<" ", "r", " ">>, <<"r", "\n">> }

\* Exceptions the body of fetch_news can raise: network failure, non-2xx
\* status (raise_for_status), a payload of the wrong shape.
FetchExceptions == { "ConnectionError", "HTTPError", "TypeError" }

\* ---------------------------------------------------------------- helpers
Whitespace == { " ", "\n", "\t" }

\* A local name of main that no assignment has bound yet.
Unbound == << "<unbound>" >>

\* One entry of the trace of a script run: what happened (a call, a return,
\* a rendered element, a raised exception) and for which article (0: none).
\* Error notices of the generation functions are counted in st_errors only.
Ev(name, i) == [ev |-> name, i |-> i]

\* str.strip(): drop leading and trailing whitespace.
RECURSIVE LStrip(_)
LStrip(s) == IF s # <<>> /\ Head(s) \in Whitespace THEN LStrip(Tail(s)) ELSE s

RECURSIVE RStrip(_)
RStrip(s) == IF s # <<>> /\ s[Len(s)] \in Whitespace
             THEN RStrip(SubSeq(s, 1, Len(s) - 1)) ELSE s

Strip(s) == RStrip(LStrip(s))

\* dict.get(key, default)
Get(item, key, default) == IF key \in DOMAIN item THEN item[key] ELSE default

\* Mutant of MakeArticle: the result item is appended as it came.
MakeArticleCopy(item) == item

\* The record fetch_news appends for one result item.
MakeArticle(item) ==
    [title   |-> Get(item, "title", <<>>),
     snippet |-> Get(item, "snippet", <<>>),
     link    |-> Get(item, "link", <<>>)]

\* news_results after the for loop over news_data.get('news', []).
ExtractNews(news) == [i \in 1..Len(news) |-> MakeArticle(news[i])]

\* json.dumps({"q": topic, "num": 5})
MakePayload(t) == [q |-> t, num |-> NumRequested]

\* requests.RequestException and its subclasses.
IsRequestException(e) == e \in { "ConnectionError", "HTTPError" }

\* Mutant of FetchCatches: only network failures are caught.
FetchCatchesNetworkOnly(e) == e = "ConnectionError"

\* except requests.RequestException in fetch_news.
FetchCatches(e) == IsRequestException(e)

\* Mutant of MainCatches: main catches request failures only.
MainCatchesRequestOnly(e) == IsRequestException(e)

\* except Exception in main.
MainCatches(e) == TRUE

\* Mutant of TopicIsEmpty: the test never fires.
TopicIsEmptyNever(t) == FALSE

\* `if not topic` in main.
TopicIsEmpty(t) == t = <<>>

\* Mutant of ResearchFallback: the text does not mention the topic.
ResearchFallbackNoTopic(t) ==
    <<"Comprehensive research could not be generated.">>

\* Fallback of research_news.
ResearchFallback(t) ==
    <<"Comprehensive research on ">> \o t \o <<" could not be generated.">>

\* Fallback of generate_tweet_analysis.
TweetFallback(news_item) ==
    <<"Insight on ">> \o news_item.title
        \o <<": A nuanced perspective on recent developments.">>

\* ------------------------------------------------------------------- Init
Init ==
    /\ pc = "idle"
    /\ topic = <<>>
    /\ payload = MakePayload(<<>>)
    /\ news_data = <<>>
    /\ news_articles = <<>>
    /\ idx = 0
    /\ research_context = Unbound
    /\ tweet_insight = Unbound
    /\ events = <<>>
    /\ st_errors = 0

\* A rerun of the script starts from nothing: no local of the previous run
\* and nothing of the previous page survives.
FreshRun ==
    /\ news_data' = <<>>
    /\ news_articles' = <<>>
    /\ idx' = 0
    /\ research_context' = Unbound
    /\ tweet_insight' = Unbound
    /\ st_errors' = 0

\* ---------------------------------------------------------------- actions
\* The user edits the text input: the script reruns with the button not
\* pressed and renders only the static page.
EditTopic(t) ==
    /\ pc = "idle"
    /\ topic' = t
    /\ FreshRun
    /\ events' = <<>>
    /\ UNCHANGED payload
    /\ pc' = "idle"

\* The user presses "Generate Insights": main up to the search request.
Submit ==
    /\ pc = "idle"
    /\ FreshRun
    /\ UNCHANGED topic
    /\ IF TopicIsEmpty(topic)
       THEN /\ events' = << Ev("submit", 0), Ev("warn_topic", 0) >>
            /\ UNCHANGED payload
            /\ pc' = "idle"
       ELSE /\ events' = << Ev("submit", 0), Ev("fetch_call", 0) >>
            /\ payload' = MakePayload(topic)
            /\ pc' = "fetch"

\* main's except Exception (or the end of the run if it does not apply).
Unexpected(e, evs) ==
    IF MainCatches(e)
    THEN /\ st_errors' = st_errors + 1
         /\ events' = evs \o << Ev("unexpected_error", 0) >>
         /\ pc' = "idle"
    ELSE /\ st_errors' = st_errors
         /\ events' = evs \o << Ev("uncaught", 0) >>
         /\ pc' = "terminated"

\* Top of the for loop for article i: the article header is rendered and
\* research_news(article['title']) is called.
StartArticle(i, evs) ==
    /\ idx' = i
    /\ events' = evs \o << Ev("header", i), Ev("research_call", i) >>
    /\ pc' = "research"

\* main after fetch_news returned `articles`.
AfterFetch(articles, evs, errs) ==
    /\ news_articles' = articles
    /\ st_errors' = errs
    /\ UNCHANGED <<research_context, tweet_insight>>
    /\ IF articles = <<>>
       THEN /\ events' = evs \o << Ev("warn_nonews", 0) >>
            /\ idx' = 0
            /\ pc' = "idle"
       ELSE StartArticle(1, evs \o << Ev("subheader", 0) >>)

\* The search request answers with a news array.
FetchOk(news) ==
    /\ pc = "fetch"
    /\ news_data' = news
    /\ AfterFetch(ExtractNews(news), events \o << Ev("fetch_ok", 0) >>, st_errors)
    /\ UNCHANGED <<topic, payload>>

\* The body of fetch_news raises e.
FetchRaise(e) ==
    /\ pc = "fetch"
    /\ UNCHANGED <<topic, payload, news_data>>
    /\ IF FetchCatches(e)
       THEN AfterFetch(<<>>, events \o << Ev(e, 0), Ev("fetch_error", 0) >>,
                       st_errors + 1)
       ELSE /\ Unexpected(e, events \o << Ev(e, 0), Ev("fetch_raise", 0) >>)
            /\ UNCHANGED <<news_articles, idx, research_context, tweet_insight>>

\* Exceptions of genai.GenerativeModel(...), which both generation functions
\* call before entering their try block.
ConstructExceptions == { "AttributeError" }

\* Exceptions of model.generate_content(prompt) and of response.text.
GenerateExceptions == { "GoogleAPIError", "ValueError" }

\* except Exception in research_news and in generate_tweet_analysis.
GenCatches(e) == TRUE

\* The article of the current loop iteration.
Article == news_articles[idx]

\* main after research_news returned `text`: generate_tweet_analysis(article)
\* is called.
AfterResearch(text, errs) ==
    /\ research_context' = text
    /\ st_errors' = errs
    /\ events' = events \o << Ev("research_ret", idx), Ev("tweet_call", idx) >>
    /\ pc' = "tweet"
    /\ UNCHANGED <<topic, payload, news_data, news_articles, idx, tweet_insight>>

\* initialize_gemini_model() raises inside research_news, outside its try.
ResearchRaise(e) ==
    /\ pc = "research"
    /\ Unexpected(e, events \o << Ev("research_raise", idx) >>)
    /\ UNCHANGED <<topic, payload, news_data, news_articles, idx,
                   research_context, tweet_insight>>

\* generate_content or response.text raises inside the try of research_news.
ResearchFail(e) ==
    /\ pc = "research"
    /\ IF GenCatches(e)
       THEN AfterResearch(ResearchFallback(Article.title), st_errors + 1)
       ELSE /\ Unexpected(e, events \o << Ev("research_raise", idx) >>)
            /\ UNCHANGED <<topic, payload, news_data, news_articles, idx,
                           research_context, tweet_insight>>

\* research_news returns the stripped completion.
ResearchOk(raw) ==
    /\ pc = "research"
    /\ AfterResearch(Strip(raw), st_errors)

\* Mutant of BlockTail: nothing is rendered inside the loop.
BlockTailBuffered(i) == << >>

\* What main renders once both texts of article i are there.
BlockTail(i) ==
    << Ev("research_shown", i), Ev("insight_shown", i), Ev("divider", i) >>

\* main after generate_tweet_analysis returned `text`: the rest of the block
\* is rendered, then the loop goes on to the next article or ends.
AfterTweet(text, errs) ==
    /\ tweet_insight' = text
    /\ UNCHANGED <<topic, payload, news_data, news_articles, research_context>>
    /\ LET evs == events \o << Ev("tweet_ret", idx) >> \o BlockTail(idx)
       IN  IF idx < Len(news_articles)
           THEN /\ StartArticle(idx + 1, evs)
                /\ st_errors' = errs
           ELSE /\ events' = evs
                /\ st_errors' = errs
                /\ idx' = idx
                /\ pc' = "idle"

\* initialize_gemini_model() raises inside generate_tweet_analysis.
TweetRaise(e) ==
    /\ pc = "tweet"
    /\ Unexpected(e, events \o << Ev("tweet_raise", idx) >>)
    /\ UNCHANGED <<topic, payload, news_data, news_articles, idx,
                   research_context, tweet_insight>>

\* generate_content or response.text raises inside the try of
\* generate_tweet_analysis.
TweetFail(e) ==
    /\ pc = "tweet"
    /\ IF GenCatches(e)
       THEN AfterTweet(TweetFallback(Article), st_errors + 1)
       ELSE /\ Unexpected(e, events \o << Ev("tweet_raise", idx) >>)
            /\ UNCHANGED <<topic, payload, news_data, news_articles, idx,
                           research_context, tweet_insight>>

\* generate_tweet_analysis returns the stripped completion.
TweetOk(raw) ==
    /\ pc = "tweet"
    /\ AfterTweet(Strip(raw), st_errors)

Next ==
    \/ \E t \in Topics : EditTopic(t)
    \/ Submit
    \/ \E news \in NewsArrays : FetchOk(news)
    \/ \E e \in FetchExceptions : FetchRaise(e)
    \/ \E e \in ConstructExceptions : ResearchRaise(e)
    \/ \E e \in GenerateExceptions : ResearchFail(e)
    \/ \E raw \in RawResponses : ResearchOk(raw)
    \/ \E e \in ConstructExceptions : TweetRaise(e)
    \/ \E e \in GenerateExceptions : TweetFail(e)
    \/ \E raw \in RawResponses : TweetOk(raw)

Spec == Init /\ [][Next]_vars

\* ===================================================================
\* Properties
\* ===================================================================
HasIn(evs, name) == \E k \in 1..Len(evs) : evs[k].ev = name
Has(name) == HasIn(events, name)

CountIn(evs, name) == Cardinality({ k \in 1..Len(evs) : evs[k].ev = name })
Count(name) == CountIn(events, name)

CountAt(name, i) == Cardinality({ k \in 1..Len(events) : events[k] = Ev(name, i) })

\* t occurs in s as a contiguous part.
Contains(s, t) ==
    \E k \in 0..(Len(s) - Len(t)) : SubSeq(s, k + 1, k + Len(t)) = t

\* The elements of an article block.
BlockParts == { "header", "research_shown", "insight_shown", "divider" }

GenerationCalls == { "research_call", "tweet_call" }

\* A submission has been made and its script run is over.
RunOver == pc = "idle" /\ Has("submit")

\* The step starts a new submission.
NewSubmission ==
    pc = "idle" /\ Len(events') = 2 /\ events'[1] = Ev("submit", 0)

\* A new submission of a non-empty topic carries nothing over.
StartsAfresh ==
    /\ pc' = "fetch"
    /\ events' = << Ev("submit", 0), Ev("fetch_call", 0) >>
    /\ st_errors' = 0
    /\ news_articles' = <<>>
    /\ idx' = 0
    /\ research_context' = Unbound
    /\ tweet_insight' = Unbound

\* C1: when the search answers a non-empty topic with N items, 0 <= N <= 5,
\* the finished run shows exactly N complete article blocks, or exactly the
\* "no results" notice and no block when N = 0, whatever the generation
\* calls did.
C1_BlocksMatchItems ==
    (RunOver /\ Has("fetch_ok") /\ Len(news_data) <= NumRequested) =>
        /\ \A part \in BlockParts : Count(part) = Len(news_data)
        /\ \A i \in 1..Len(news_data) :
               \A part \in BlockParts : CountAt(part, i) = 1
        /\ Count("warn_nonews") = (IF Len(news_data) = 0 THEN 1 ELSE 0)

\* C2: a submission with an empty topic shows the warning and ends: no
\* search call, no generation call, no article block, no error notice.
C2_EmptyTopicDoesNothing ==
    (Has("submit") /\ topic = <<>>) =>
        /\ pc = "idle"
        /\ events = << Ev("submit", 0), Ev("warn_topic", 0) >>
        /\ Count("fetch_call") = 0
        /\ \A c \in GenerationCalls : Count(c) = 0
        /\ \A part \in BlockParts : Count(part) = 0
        /\ st_errors = 0

C2_Witness == Has("submit") /\ topic = <<>> /\ Has("warn_topic")

\* C3: when the search call fails with a network error or a non-2xx status,
\* fetch_news reports one error and returns no article; main shows the
\* "no results" notice, no block, makes no generation call and is idle
\* again; the next submission starts afresh with its own search call.
C3_FetchFailureIsNoResults ==
    [][ /\ (HasIn(events', "ConnectionError") \/ HasIn(events', "HTTPError")) =>
              /\ pc' = "idle"
              /\ CountIn(events', "fetch_error") = 1
              /\ st_errors' = 1
              /\ news_articles' = <<>>
              /\ CountIn(events', "warn_nonews") = 1
              /\ ~ HasIn(events', "unexpected_error")
              /\ \A part \in BlockParts : CountIn(events', part) = 0
              /\ \A c \in GenerationCalls : CountIn(events', c) = 0
        /\ (Has("fetch_error") /\ NewSubmission) => StartsAfresh
      ]_vars

C3_Witness ==
    /\ pc = "idle"
    /\ Has("HTTPError")
    /\ Has("fetch_error")
    /\ Has("warn_nonews")
    /\ st_errors = 1

\* C4: a generation call that fails inside its try block returns a text
\* that is not empty and contains the title of the article, also when the
\* title is the empty default.
C4_FallbackContainsTitle ==
    [][ /\ (pc = "research" /\ pc' = "tweet" /\ st_errors' = st_errors + 1) =>
              /\ research_context' # <<>>
              /\ Contains(research_context', news_articles[idx].title)
        /\ (pc = "tweet" /\ st_errors' = st_errors + 1
                /\ CountIn(events', "tweet_ret") = Count("tweet_ret") + 1) =>
              /\ tweet_insight' # <<>>
              /\ Contains(tweet_insight', news_articles[idx].title)
      ]_vars

C4_Witness ==
    /\ pc = "tweet"
    /\ st_errors = 1
    /\ news_articles[idx].title = <<>>
    /\ research_context = ResearchFallback(<<>>)

\* C5: no failure of a generation function leaves the function as an
\* exception; every article of a finished run has its research passage and
\* its insight on the page.
C5_GenerationNeverRaises ==
    /\ ~ Has("research_raise")
    /\ ~ Has("tweet_raise")
    /\ (RunOver /\ Has("fetch_ok")) =>
           \A i \in 1..Len(news_articles) :
               CountAt("research_shown", i) = 1 /\ CountAt("insight_shown", i) = 1

\* C6: fetch_news returns at most 5 articles whatever the length of the
\* news array of the response.
C6_AtMostFiveArticles == Len(news_articles) <= NumRequested

\* C7: fetch_news builds one article per result item, in the order of the
\* response, each with exactly the keys title, snippet and link, holding the
\* value of the item or the empty text where the item has no such key.
C7_ArticlesNormalised ==
    Has("fetch_ok") =>
        /\ ~ Has("fetch_raise")
        /\ Len(news_articles) = Len(news_data)
        /\ \A i \in 1..Len(news_data) :
              /\ DOMAIN news_articles[i] = { "title", "snippet", "link" }
              /\ \A key \in { "title", "snippet", "link" } :
                     news_articles[i][key] =
                         IF key \in DOMAIN news_data[i] THEN news_data[i][key] ELSE <<>>

C7_Witness ==
    /\ Has("fetch_ok")
    /\ Len(news_data) >= 2
    /\ "title" \notin DOMAIN news_data[1]
    /\ "link" \notin DOMAIN news_data[2]
    /\ news_articles[1].title = <<>>
    /\ news_articles[2].link = <<>>

\* An exception has left the function that raised it.
Escaped(evs) ==
    HasIn(evs, "fetch_raise") \/ HasIn(evs, "research_raise") \/ HasIn(evs, "tweet_raise")

\* C8: an exception that leaves fetch_news or a generation function is
\* caught by main, shown as one more error notice, and ends the run without
\* ending the process: the page is idle and the next submission starts
\* afresh.
C8_CatchAll ==
    [][ /\ (Escaped(events') /\ ~ Escaped(events)) =>
              /\ pc' = "idle"
              /\ st_errors' = st_errors + 1
              /\ CountIn(events', "unexpected_error") = 1
              /\ events'[Len(events')] = Ev("unexpected_error", 0)
              /\ ~ HasIn(events', "uncaught")
        /\ (Escaped(events) /\ NewSubmission) => StartsAfresh
      ]_vars

C8_Witness ==
    /\ pc = "idle"
    /\ Has("fetch_raise")
    /\ Has("unexpected_error")
    /\ st_errors = 1

\* C9: a finished run of a non-empty topic made exactly one search call and,
\* for each article fetch_news returned, exactly one research call and
\* exactly one insight call, whether the calls succeeded or failed.
C9_ExactlyOneCallEach ==
    (RunOver /\ topic # <<>>) =>
        /\ Count("fetch_call") = 1
        /\ \A i \in 1..Len(news_articles) :
               CountAt("research_call", i) = 1 /\ CountAt("tweet_call", i) = 1

\* C10: in the trace of a run the search call comes before every generation
\* call; the research calls go through the articles 1, 2, ... in order; the
\* research call of an article has returned before its insight call starts;
\* and every element of the block of article i is rendered before the
\* research call of article i + 1.
C10_StrictOrder ==
    \A k \in 1..Len(events) :
        LET e == events[k]
            Earlier(x) == \E j \in 1..(k - 1) : events[j] = x
        IN  /\ e.ev \in GenerationCalls =>
                  /\ Earlier(Ev("fetch_call", 0))
                  /\ Earlier(Ev("fetch_ok", 0))
                  /\ e.i \in 1..Len(news_articles)
            /\ e.ev = "research_call" =>
                  /\ Cardinality({ j \in 1..(k - 1) : events[j].ev = "research_call" }) = e.i - 1
                  /\ events[k - 1] = Ev("header", e.i)
                  /\ e.i > 1 => \A part \in BlockParts : Earlier(Ev(part, e.i - 1))
                  /\ e.i > 1 => Earlier(Ev("tweet_ret", e.i - 1))
            /\ e.ev = "tweet_call" =>
                  /\ Earlier(Ev("research_call", e.i))
                  /\ events[k - 1] = Ev("research_ret", e.i)
            /\ e.ev \in { "research_shown", "insight_shown", "divider" } =>
                  /\ Earlier(Ev("research_ret", e.i))
                  /\ Earlier(Ev("tweet_ret", e.i))

C10_Witness ==
    /\ pc = "research"
    /\ idx = 2
    /\ CountAt("divider", 1) = 1
    /\ CountAt("research_call", 2) = 1

====
